---- MODULE Spec2Model ----
(***************************************************************************)
(* A model of AssemblyHandler (src/AssemblyHandler.py): a virtual machine  *)
(* with a 2048-cell memory, six registers (A, B, C, D, P, X), a command    *)
(* list read from the user up to the line END, and a fetch/execute loop.   *)
(*                                                                         *)
(* One command line is modelled after parts = command.split(): op is       *)
(* parts[0], d and s are the register names among parts[1..2], n is the    *)
(* integer literal the code obtains with int(...).  Python integers are    *)
(* unbounded, so the model's integers are the mathematical ones.           *)
(*                                                                         *)
(* The program's numeric limits are scaled down so that the cases at the   *)
(* limits are reached by short programs; their order is the program's:     *)
(*    memory size < program-counter limit < step limit < magnitude limit   *)
(*       2048     <        10000          <   10**6    <     2**42         *)
(***************************************************************************)
EXTENDS Integers, Sequences, FiniteSets, TLC

\* Scaled limits (the source's value is in the comment).
\* len(self.memory): 2048 in the source
MemSize == 2
\* the program-counter limit: 10000 in the source
PCLimit == 4
\* the execution-counter limit: 10**6 in the source
StepLimit == 5
\* the magnitude limit: 2**42 in the source
MaxVal == 6
\* the longest command list the loader is given
MaxProgLen == 3

\* Derived caps, reached only by programs that write register X themselves.
MaxDispatch == StepLimit + 2
RegCap == MaxVal * (StepLimit + 2)
MaxOutput == StepLimit + 3

FaultMsg == "I'm afraid I can't do that"
HaltMsg == "Execution halted"

Regs == {"A", "B", "C", "D", "P", "X"}

\* stdin: the lines not yet read by input(); output: what print() has written;
\* pc: where the script is ("load", "execute", "exited": execute() has
\* returned, "raised": an uncaught exception has ended the process);
\* dispatched: the number of calls of parse_command so far (history only).
VARIABLES stdin, memory, short_term, commands, error, output, pc, dispatched

vars == <<stdin, memory, short_term, commands, error, output, pc, dispatched>>

----------------------------------------------------------------------------
\* The command lines the user may type.

Line(op, d, s, n) == [op |-> op, d |-> d, s |-> s, n |-> n]

EndLine == Line("END", "-", "-", 0)

\* What the user types is drawn from one of four vocabularies.
ArithLines ==
    {Line("LOADI", "A", "-", n) :
        n \in {-1, MaxVal, -MaxVal, MaxVal + 1, -(MaxVal + 1)}}
    \cup {Line("LOADI", "B", "-", n) : n \in {-1, MaxVal}}
    \cup {Line("ADDI", "A", "-", n) : n \in {MaxVal, MaxVal + 1}}
    \cup {Line("ADD", "A", "A", 0), Line("SUB", "A", "B", 0),
          Line("MUL", "A", "A", 0), Line("MOVE", "B", "A", 0),
          Line("PRINT", "A", "-", 0)}

MemLines ==
    {Line("LOADA", "B", "-", n) : n \in {-1, MemSize - 1, MemSize}}
    \cup {Line("STOREA", "A", "-", n) : n \in {-1, MemSize - 1, MemSize}}
    \cup {Line("LOADI", "A", "-", n) : n \in {-1, 1}}
    \cup {Line("LOAD", "B", "-", 0), Line("STORE", "A", "-", 0),
          Line("ADDI", "A", "-", MaxVal), Line("PRINT", "B", "-", 0)}

CtlLines ==
    {Line("J", "-", "-", n) : n \in {-1, -3, PCLimit}}
    \cup {Line("LOADI", "X", "-", n) : n \in {-1, MaxVal}}
    \cup {Line("JR", "A", "-", 0), Line("JZ", "A", "-", -1),
          Line("JLT", "A", "B", 1), Line("LOADI", "A", "-", -1),
          Line("HALT", "-", "-", 0), Line("PRINT", "A", "-", 0),
          Line("NOP", "-", "-", 0)}

DivLines ==
    {Line("LOADI", r, "-", n) : r \in {"A", "B"}, n \in {-1, MaxVal, 1 - MaxVal}}
    \cup {Line("DIV", "A", s, 0) : s \in {"B", "P"}}
    \cup {Line("ADDI", "A", "-", MaxVal), Line("J", "-", "-", -3),
          Line("PRINT", "A", "-", 0)}

Vocabularies == {ArithLines, MemLines, CtlLines, DivLines}

\* the programs of at most MaxProgLen lines over one vocabulary
Programs(V) == UNION {[1 .. k -> V] : k \in 0 .. MaxProgLen}

\* the user's input: a program, then the line END
Inputs == {prog \o <<EndLine>> : prog \in UNION {Programs(V) : V \in Vocabularies}}

----------------------------------------------------------------------------
\* Python's built-ins, as the code uses them.

Abs(v) == IF v < 0 THEN -v ELSE v

\* the quotient rounded toward zero, as C's / does
TruncDiv(a, b) ==
    IF (a < 0) = (b < 0) THEN Abs(a) \div Abs(b) ELSE -(Abs(a) \div Abs(b))

\* a // b for b # 0: the quotient rounded toward minus infinity.
FloorDiv(a, b) == IF b > 0 THEN a \div b ELSE (-a) \div (-b)

\* lst[i] on a list of length n: an index in -n .. n-1 is accepted and a
\* negative one counts from the end; any other index raises IndexError.
IndexOK(n, i) == -n <= i /\ i < n

Index(n, i) == IF i < 0 THEN n + i ELSE i

Min(a, b) == IF a < b THEN a ELSE b

----------------------------------------------------------------------------
Init ==
    /\ stdin \in Inputs
    /\ memory = [i \in 0 .. MemSize - 1 |-> 0]
    /\ short_term = [r \in Regs |-> 0]
    /\ commands = <<>>
    /\ error = FALSE
    /\ output = <<>>
    /\ pc = "load"
    /\ dispatched = 0

\* lines 42-45: a line other than END is read and appended.
LoadCommand ==
    /\ pc = "load"
    /\ Head(stdin) # EndLine
    /\ commands' = Append(commands, Head(stdin))
    /\ stdin' = Tail(stdin)
    /\ UNCHANGED <<memory, short_term, error, output, pc, dispatched>>

\* lines 43-44: the line END is read; line 180 calls execute() next.
EndOfInput ==
    /\ pc = "load"
    /\ Head(stdin) = EndLine
    /\ stdin' = Tail(stdin)
    /\ pc' = "execute"
    /\ UNCHANGED <<memory, short_term, commands, error, output, dispatched>>

----------------------------------------------------------------------------
\* execute(): the loop of lines 49-61.

P == short_term["P"]

X == short_term["X"]

\* the loop runs once more at the end of the command list
LoopCondInclusive(p, n, err) == p <= n /\ ~err

\* the loop goes on after an error
LoopCondIgnoresError(p, n, err) == p < n

\* line 49: while self.short_term["P"] < len(self.commands) and not self.error
LoopCond(p, n, err) == p < n /\ ~err

\* line 52
PCOutOfBounds(p) == p < 0 \/ p >= PCLimit

\* the comparison is off by one
StepLimitOffByOne(x) == x > StepLimit + 1

\* line 57
StepLimitExceeded(x) == x > StepLimit

\* the limit itself is rejected
OverflowAtLimit(v) == Abs(v) >= MaxVal

\* the overflow test of lines 74, 83, 92, 104, 113, 121, 129, 142
Overflow(v) == Abs(v) > MaxVal

\* line 50: command = self.commands[self.short_term["P"]]
command == commands[Index(Len(commands), P) + 1]

\* The loop condition is false: execute() returns.
LoopExit ==
    /\ pc = "execute"
    /\ ~LoopCond(P, Len(commands), error)
    /\ pc' = "exited"
    /\ UNCHANGED <<stdin, memory, short_term, commands, error, output, dispatched>>

\* line 50 raises IndexError: P is below -len(commands).
FetchRaises ==
    /\ pc = "execute"
    /\ LoopCond(P, Len(commands), error)
    /\ ~IndexOK(Len(commands), P)
    /\ pc' = "raised"
    /\ UNCHANGED <<stdin, memory, short_term, commands, error, output, dispatched>>

\* lines 52-55: the program-counter check, then break.
PCGuard ==
    /\ pc = "execute"
    /\ LoopCond(P, Len(commands), error)
    /\ IndexOK(Len(commands), P)
    /\ PCOutOfBounds(P)
    /\ error' = TRUE
    /\ output' = Append(output, [text |-> FaultMsg, value |-> 0])
    /\ pc' = "exited"
    /\ UNCHANGED <<stdin, memory, short_term, commands, dispatched>>

\* lines 57-60: the execution-counter check, then break.
StepGuard ==
    /\ pc = "execute"
    /\ LoopCond(P, Len(commands), error)
    /\ IndexOK(Len(commands), P)
    /\ ~PCOutOfBounds(P)
    /\ StepLimitExceeded(X)
    /\ error' = TRUE
    /\ output' = Append(output, [text |-> FaultMsg, value |-> 0])
    /\ pc' = "exited"
    /\ UNCHANGED <<stdin, memory, short_term, commands, dispatched>>

\* line 61 is reached: parse_command(command) is called.
Dispatching ==
    /\ pc = "execute"
    /\ LoopCond(P, Len(commands), error)
    /\ IndexOK(Len(commands), P)
    /\ ~PCOutOfBounds(P)
    /\ ~StepLimitExceeded(X)

----------------------------------------------------------------------------
\* parse_command(): the ways it ends.

\* line 170 is missing: the execution counter is never incremented
AdvancePOnly(st) == [st EXCEPT !["P"] = @ + 1]

\* lines 169-170, applied to the register file st the branch has produced
Advance(st) == [st EXCEPT !["P"] = @ + 1, !["X"] = @ + 1]

Called == dispatched' = Min(dispatched + 1, MaxDispatch)

\* The branch falls through to lines 169-170.
Completes(st, mem, out) ==
    /\ short_term' = Advance(st)
    /\ memory' = mem
    /\ output' = out
    /\ Called
    /\ UNCHANGED <<stdin, commands, error, pc>>

\* self.error = True; print(msg); return
Faults(st, msg) ==
    /\ short_term' = st
    /\ error' = TRUE
    /\ output' = Append(output, [text |-> msg, value |-> 0])
    /\ Called
    /\ UNCHANGED <<stdin, memory, commands, pc>>

\* An uncaught IndexError: the interpreter process ends with a traceback.
Raises ==
    /\ pc' = "raised"
    /\ Called
    /\ UNCHANGED <<stdin, memory, short_term, commands, error, output>>

----------------------------------------------------------------------------
\* parse_command(): one action per branch of lines 66-167.

\* the register file after self.short_term[r] = v
Set(r, v) == [short_term EXCEPT ![r] = v]

\* lines 66-67
LOADA ==
    /\ Dispatching
    /\ command.op = "LOADA"
    /\ IF IndexOK(MemSize, command.n)
       THEN Completes(Set(command.d, memory[Index(MemSize, command.n)]),
                      memory, output)
       ELSE Raises

\* lines 68-69
LOAD ==
    /\ Dispatching
    /\ command.op = "LOAD"
    /\ IF IndexOK(MemSize, short_term["A"])
       THEN Completes(Set(command.d, memory[Index(MemSize, short_term["A"])]),
                      memory, output)
       ELSE Raises

\* lines 70-78
LOADI ==
    /\ Dispatching
    /\ command.op = "LOADI"
    /\ IF Overflow(command.n)
       THEN Faults(short_term, FaultMsg)
       ELSE Completes(Set(command.d, command.n), memory, output)

\* the overflow test of line 83 is missing
STOREA_Unchecked ==
    /\ Dispatching
    /\ command.op = "STOREA"
    /\ IF IndexOK(MemSize, command.n)
       THEN Completes(short_term,
                      [memory EXCEPT ![Index(MemSize, command.n)] =
                                         short_term[command.d]],
                      output)
       ELSE Raises

\* the cell is written before the overflow check
STOREA_WritesFirst ==
    /\ Dispatching
    /\ command.op = "STOREA"
    /\ IF ~IndexOK(MemSize, command.n)
       THEN Raises
       ELSE IF Overflow(short_term[command.d])
            THEN /\ memory' = [memory EXCEPT ![Index(MemSize, command.n)] =
                                                short_term[command.d]]
                 /\ error' = TRUE
                 /\ output' = Append(output, [text |-> FaultMsg, value |-> 0])
                 /\ Called
                 /\ UNCHANGED <<stdin, short_term, commands, pc>>
            ELSE Completes(short_term,
                           [memory EXCEPT ![Index(MemSize, command.n)] =
                                              short_term[command.d]],
                           output)

\* lines 79-87
STOREA ==
    /\ Dispatching
    /\ command.op = "STOREA"
    /\ IF Overflow(short_term[command.d])
       THEN Faults(short_term, FaultMsg)
       ELSE IF IndexOK(MemSize, command.n)
            THEN Completes(short_term,
                           [memory EXCEPT ![Index(MemSize, command.n)] =
                                              short_term[command.d]],
                           output)
            ELSE Raises

\* lines 88-96
STORE ==
    /\ Dispatching
    /\ command.op = "STORE"
    /\ IF Overflow(short_term[command.d])
       THEN Faults(short_term, FaultMsg)
       ELSE IF IndexOK(MemSize, short_term["A"])
            THEN Completes(short_term,
                           [memory EXCEPT ![Index(MemSize, short_term["A"])] =
                                              short_term[command.d]],
                           output)
            ELSE Raises

\* lines 97-99
MOVE ==
    /\ Dispatching
    /\ command.op = "MOVE"
    /\ Completes(Set(command.d, short_term[command.s]), memory, output)

\* lines 100-108; the sum itself is not tested
ADDI ==
    /\ Dispatching
    /\ command.op = "ADDI"
    /\ IF Overflow(command.n)
       THEN Faults(short_term, FaultMsg)
       ELSE /\ Abs(short_term[command.d] + command.n) <= RegCap
            /\ Completes(Set(command.d, short_term[command.d] + command.n),
                         memory, output)

\* lines 112-116, 120-124, 128-132, 141-145: the register is assigned first,
\* then tested
Assigned(r, v) ==
    IF Overflow(v)
    THEN Faults(Set(r, v), FaultMsg)
    ELSE Completes(Set(r, v), memory, output)

\* lines 109-116
ADD ==
    /\ Dispatching
    /\ command.op = "ADD"
    /\ Assigned(command.d, short_term[command.d] + short_term[command.s])

\* lines 117-124
SUB ==
    /\ Dispatching
    /\ command.op = "SUB"
    /\ Assigned(command.d, short_term[command.d] - short_term[command.s])

\* lines 125-132
MUL ==
    /\ Dispatching
    /\ command.op = "MUL"
    /\ Assigned(command.d, short_term[command.d] * short_term[command.s])

\* lines 135-138: no return follows the print, so lines 169-170 run
DivisionByZero ==
    /\ short_term' = Advance(short_term)
    /\ error' = TRUE
    /\ output' = Append(output, [text |-> FaultMsg, value |-> 0])
    /\ Called
    /\ UNCHANGED <<stdin, memory, commands, pc>>

\* lines 133-145
DIV ==
    /\ Dispatching
    /\ command.op = "DIV"
    /\ IF short_term[command.s] = 0
       THEN DivisionByZero
       ELSE Assigned(command.d,
                     FloorDiv(short_term[command.d], short_term[command.s]))

\* the jump returns before lines 169-170
J_Returns ==
    /\ Dispatching
    /\ command.op = "J"
    /\ short_term' = Set("P", P + command.n)
    /\ Called
    /\ UNCHANGED <<stdin, memory, commands, error, output, pc>>

\* lines 146-148
J ==
    /\ Dispatching
    /\ command.op = "J"
    /\ Completes(Set("P", P + command.n), memory, output)

\* lines 149-151
JR ==
    /\ Dispatching
    /\ command.op = "JR"
    /\ Completes(Set("P", P + short_term[command.d]), memory, output)

\* lines 152-155
JZ ==
    /\ Dispatching
    /\ command.op = "JZ"
    /\ IF short_term[command.d] = 0
       THEN Completes(Set("P", P + command.n), memory, output)
       ELSE Completes(short_term, memory, output)

\* lines 156-159
JLT ==
    /\ Dispatching
    /\ command.op = "JLT"
    /\ IF short_term[command.d] < short_term[command.s]
       THEN Completes(Set("P", P + command.n), memory, output)
       ELSE Completes(short_term, memory, output)

\* HALT prints the text of the faults
HALT_FaultText ==
    /\ Dispatching
    /\ command.op = "HALT"
    /\ Faults(short_term, FaultMsg)

\* lines 160-164
HALT ==
    /\ Dispatching
    /\ command.op = "HALT"
    /\ Faults(short_term, HaltMsg)

\* the value printed is that of X, not of the register named
PRINT_WrongRegister ==
    /\ Dispatching
    /\ command.op = "PRINT"
    /\ Len(output) < MaxOutput
    /\ Completes(short_term, memory,
                 Append(output, [text |-> "int", value |-> X]))

\* lines 165-167
PRINT ==
    /\ Dispatching
    /\ command.op = "PRINT"
    /\ Len(output) < MaxOutput
    /\ Completes(short_term, memory,
                 Append(output, [text |-> "int", value |-> short_term[command.d]]))

Opcodes ==
    {"LOADA", "LOAD", "LOADI", "STOREA", "STORE", "MOVE", "ADDI", "ADD",
     "SUB", "MUL", "DIV", "J", "JR", "JZ", "JLT", "HALT", "PRINT"}

\* an unknown opcode is refused with the diagnostic
OtherLine_Faults ==
    /\ Dispatching
    /\ command.op \notin Opcodes
    /\ Faults(short_term, FaultMsg)

\* no branch of the if/elif chain matches: lines 169-170 alone
OtherLine ==
    /\ Dispatching
    /\ command.op \notin Opcodes
    /\ Completes(short_term, memory, output)

parse_command ==
    \/ LOADA \/ LOAD \/ LOADI \/ STOREA \/ STORE \/ MOVE
    \/ ADDI \/ ADD \/ SUB \/ MUL \/ DIV
    \/ J \/ JR \/ JZ \/ JLT \/ HALT \/ PRINT \/ OtherLine

execute == LoopExit \/ FetchRaises \/ PCGuard \/ StepGuard \/ parse_command

load_commands_from_user == LoadCommand \/ EndOfInput

Next == load_commands_from_user \/ execute

Spec == Init /\ [][Next]_vars

\* The interpreter is one synchronous process (lines 174-180): whenever a
\* step of it is possible, a step is taken.
FairSpec == Spec /\ WF_vars(Next)

----------------------------------------------------------------------------
\* The machine status of the specification, read off the program's state.

Running == pc = "execute" /\ LoopCond(P, Len(commands), error)

HaltedError == error

HaltedNormal == pc \in {"execute", "exited"} /\ ~error /\ P >= Len(commands)

Halted == HaltedError \/ HaltedNormal

Diagnostic(entry) == entry.text \in {FaultMsg, HaltMsg}

ABCD == {"A", "B", "C", "D"}

----------------------------------------------------------------------------
\* C1: once the machine is halted-normal or halted-error, no step dispatches
\* an instruction or changes memory, A, B, C, D or the output; so nothing is
\* printed after a diagnostic line.
C1_HaltedIsFinal ==
    [][Halted =>
          /\ memory' = memory
          /\ \A r \in ABCD : short_term'[r] = short_term[r]
          /\ output' = output
          /\ dispatched' = dispatched]_vars

\* a run that printed, then faulted, and has left execute()
C1_Witness ==
    /\ pc = "exited"
    /\ error
    /\ Len(output) >= 2
    /\ ~Diagnostic(output[1])
    /\ Diagnostic(output[Len(output)])

\* the last line written to the output is the fault diagnostic
FaultPrinted(out) == Len(out) > 0 /\ out[Len(out)].text = FaultMsg

\* C2: an instruction that faults (overflow of an immediate or of a result,
\* division by zero) leaves P and X as they were when it was fetched.
C2_FaultKeepsPX ==
    [][(Dispatching /\ command.op # "HALT" /\ error') =>
          (short_term'["P"] = P /\ short_term'["X"] = X)]_vars

\* C3: when ADD, SUB, MUL or DIV faults, the destination register still holds
\* the value it had before the instruction.
C3_OverflowKeepsDestination ==
    [][(Dispatching /\ command.op \in {"ADD", "SUB", "MUL", "DIV"} /\ error') =>
          short_term'[command.d] = short_term[command.d]]_vars

\* C4: a LOADI, ADDI, ADD, SUB, MUL or DIV that completes leaves a destination
\* of magnitude at most the limit, and while the machine runs A, B, C and D
\* are all within the limit.
C4_RegistersWithinLimit ==
    /\ [](Running => \A r \in ABCD : ~Overflow(short_term[r]))
    /\ [][(/\ Dispatching
           /\ command.op \in {"LOADI", "ADDI", "ADD", "SUB", "MUL", "DIV"}
           /\ command.d \in ABCD
           /\ ~error'
           /\ pc' = "execute") => ~Overflow(short_term'[command.d])]_vars

\* C5: every memory cell is within the limit in every reachable state, and a
\* STOREA or STORE of a register beyond the limit faults and leaves memory
\* unchanged.
C5_MemoryWithinLimit ==
    /\ [](\A i \in DOMAIN memory : ~Overflow(memory[i]))
    /\ [][(/\ Dispatching
           /\ command.op \in {"STOREA", "STORE"}
           /\ Overflow(short_term[command.d])) =>
             (error' /\ FaultPrinted(output') /\ memory' = memory)]_vars

\* a STOREA or STORE of a register beyond the limit has faulted
C5_Witness ==
    /\ error
    /\ FaultPrinted(output)
    /\ IndexOK(Len(commands), P)
    /\ P >= 0
    /\ command.op \in {"STOREA", "STORE"}
    /\ Overflow(short_term[command.d])
    /\ dispatched > 0

\* the memory index of a LOADA, LOAD, STOREA or STORE line is negative
NegativeIndex ==
    \/ command.op \in {"LOADA", "STOREA"} /\ command.n < 0
    \/ command.op \in {"LOAD", "STORE"} /\ short_term["A"] < 0

\* C6: a memory instruction with a negative index reads and writes no cell:
\* the run enters halted-error with memory and the destination unchanged.
C6_NoNegativeWraparound ==
    [][(Dispatching /\ NegativeIndex) =>
          /\ error'
          /\ FaultPrinted(output')
          /\ memory' = memory
          /\ short_term'[command.d] = short_term[command.d]]_vars

\* C7: STOREA r i with r within the limit writes r to the last cell when i is
\* the last index, and for i at or past the memory size faults with the
\* diagnostic, memory unchanged and P and X not advanced.
C7_StoreaUpperBoundary ==
    [][(Dispatching /\ command.op = "STOREA"
                    /\ ~Overflow(short_term[command.d])) =>
          /\ command.n = MemSize - 1 =>
                /\ memory' = [memory EXCEPT ![MemSize - 1] = short_term[command.d]]
                /\ ~error'
                /\ pc' = "execute"
          /\ command.n >= MemSize =>
                /\ error'
                /\ FaultPrinted(output')
                /\ memory' = memory
                /\ short_term'["P"] = P
                /\ short_term'["X"] = X]_vars

\* C8: a step that begins with P below 0 or at or above the limit ends in
\* halted-error with the diagnostic and dispatches nothing, whatever the
\* length of the program.
C8_PCGuardFirst ==
    [][(pc = "execute" /\ ~error /\ (P < 0 \/ P >= PCLimit)) =>
          /\ error'
          /\ output' = Append(output, [text |-> FaultMsg, value |-> 0])
          /\ dispatched' = dispatched]_vars

\* C9 as stated: a step that begins with X above the step limit and P in
\* [0, PCLimit) ends in halted-error with the diagnostic, also when P is at
\* or past the end of the program.
C9_StepGuardBeforeExhaustion ==
    [][(pc = "execute" /\ ~error /\ X > StepLimit /\ P >= 0 /\ P < PCLimit) =>
          /\ error'
          /\ output' = Append(output, [text |-> FaultMsg, value |-> 0])]_vars

\* C9 amended: such a step ends in halted-error with the diagnostic, without
\* dispatching, when P is inside the program; when P is at or past the end of
\* the program the run ends in halted-normal with no diagnostic.
C9_StepGuardInsideProgram ==
    [][(pc = "execute" /\ ~error /\ X > StepLimit /\ P >= 0 /\ P < PCLimit) =>
          /\ pc' = "exited"
          /\ dispatched' = dispatched
          /\ memory' = memory
          /\ short_term' = short_term
          /\ IF P < Len(commands)
             THEN /\ error'
                  /\ output' = Append(output, [text |-> FaultMsg, value |-> 0])
             ELSE /\ ~error'
                  /\ output' = output]_vars

\* the step-limit guard has stopped a run inside the program
C9_Witness ==
    /\ pc = "exited"
    /\ error
    /\ FaultPrinted(output)
    /\ X > StepLimit
    /\ P >= 0
    /\ P < Len(commands)
    /\ P < PCLimit

\* the line assigns register X
NamesXAsDestination(line) ==
    /\ line.op \in {"LOADA", "LOAD", "LOADI", "MOVE", "ADDI", "ADD", "SUB",
                    "MUL", "DIV"}
    /\ line.d = "X"

NoLineWritesX == \A i \in 1 .. Len(commands) : ~NamesXAsDestination(commands[i])

OnlyJumpsBackOne ==
    /\ Len(commands) > 0
    /\ \A i \in 1 .. Len(commands) : commands[i] = Line("J", "-", "-", -1)

\* C10: a program with no line that assigns X is dispatched at most
\* StepLimit + 1 times and is never stuck inside execute(); a program of J -1 lines stays at instruction 0 and
\* ends in halted-error by the step-limit guard with one diagnostic.
C10_StepLimitStopsLoops ==
    /\ NoLineWritesX => dispatched <= StepLimit + 1
    /\ (NoLineWritesX /\ pc = "execute") => ENABLED execute
    /\ (pc # "load" /\ OnlyJumpsBackOne) =>
          /\ P = 0
          /\ pc # "raised"
          /\ pc = "exited" =>
                /\ error
                /\ dispatched = StepLimit + 1
                /\ output = <<[text |-> FaultMsg, value |-> 0]>>

\* a program of J -1 lines has been stopped by the step-limit guard
C10_Witness ==
    /\ OnlyJumpsBackOne
    /\ pc = "exited"
    /\ error
    /\ dispatched = StepLimit + 1
    /\ X = StepLimit + 1

\* C11: X counts the instructions completed without fault: it grows by
\* exactly 1 in a step that dispatches an instruction which completes, and no
\* other step changes it (X is 0 at the start).  Stated for the programs
\* that do not assign X themselves, where X is only the machine's counter.
C11_XCountsCompleted ==
    [][NoLineWritesX =>
          IF Dispatching /\ ~error' /\ pc' = "execute"
          THEN short_term'["X"] = X + 1
          ELSE short_term'["X"] = X]_vars

JumpOps == {"J", "JR", "JZ", "JLT"}

\* where the line fetched at P lands: one past its raw offset when the jump
\* is taken, one past P otherwise
JumpTarget ==
    CASE command.op = "J" -> P + command.n + 1
      [] command.op = "JR" -> P + short_term[command.d] + 1
      [] command.op = "JZ" ->
            IF short_term[command.d] = 0 THEN P + command.n + 1 ELSE P + 1
      [] command.op = "JLT" ->
            IF short_term[command.d] < short_term[command.s]
            THEN P + command.n + 1 ELSE P + 1

\* C12: a J, JR, JZ or JLT fetched at P = p leaves P at p + offset + 1 when
\* taken and at p + 1 otherwise, adds exactly 1 to X and changes no other
\* register, no memory cell and no output.
C12_JumpLandsOnePast ==
    [][(Dispatching /\ command.op \in JumpOps) =>
          /\ short_term'["P"] = JumpTarget
          /\ short_term'["X"] = X + 1
          /\ \A r \in ABCD : short_term'[r] = short_term[r]
          /\ memory' = memory
          /\ output' = output
          /\ ~error'
          /\ pc' = "execute"]_vars

\* LOADI A -1, then JLT A B 1 taken: two instructions have run and P is 3
C12_Witness ==
    /\ Len(commands) = 3
    /\ commands[1] = Line("LOADI", "A", "-", -1)
    /\ commands[2] = Line("JLT", "A", "B", 1)
    /\ dispatched = 2
    /\ P = 3
    /\ X = 2
    /\ ~error

\* C13: a run in halted-error has written exactly one diagnostic line, the
\* last line of the output: "Execution halted" when HALT caused it and the
\* fault text for every fault; a run without error has written none.
C13_OneDiagnosticLast ==
    /\ [](error =>
             /\ Len(output) >= 1
             /\ Diagnostic(output[Len(output)])
             /\ \A i \in 1 .. Len(output) - 1 : ~Diagnostic(output[i]))
    /\ [](~error => \A i \in 1 .. Len(output) : ~Diagnostic(output[i]))
    /\ [][(~error /\ error') =>
             output' = Append(output,
                 [text |-> IF Dispatching /\ command.op = "HALT"
                           THEN HaltMsg ELSE FaultMsg,
                  value |-> 0])]_vars

\* a run that printed a value and was then stopped by HALT
C13_Witness ==
    /\ pc = "exited"
    /\ error
    /\ Len(output) >= 2
    /\ output[1].text = "int"
    /\ output[Len(output)].text = HaltMsg

\* q is the floor of d / s: the largest integer whose product with s does
\* not pass d
IsFloorOf(q, d, s) ==
    IF s > 0 THEN q * s <= d /\ d < (q + 1) * s
             ELSE q * s >= d /\ d > (q + 1) * s

\* C14: a DIV dst src that completes, with dst and src among A-D and any
\* non-zero divisor, sets dst to floor(dst / src) (rounding toward minus
\* infinity) and leaves src unchanged when src is another register.
C14_DivFloors ==
    [][(/\ Dispatching
        /\ command.op = "DIV"
        /\ command.d \in ABCD
        /\ short_term[command.s] # 0
        /\ ~error') =>
          /\ IsFloorOf(short_term'[command.d], short_term[command.d],
                       short_term[command.s])
          /\ (command.s \in ABCD /\ command.s # command.d) =>
                short_term'[command.s] = short_term[command.s]]_vars

\* LOADI A 1-MaxVal, LOADI B MaxVal, DIV A B have run: A is -1, not 0
C14_Witness ==
    /\ commands = <<Line("LOADI", "A", "-", 1 - MaxVal),
                    Line("LOADI", "B", "-", MaxVal),
                    Line("DIV", "A", "B", 0)>>
    /\ dispatched = 3
    /\ ~error
    /\ short_term["A"] = -1
    /\ short_term["B"] = MaxVal

\* C15: LOADI r v with r among A-D sets r to v and goes on exactly when
\* -MaxVal <= v <= MaxVal (the limit itself is accepted); otherwise it
\* faults with the diagnostic and r keeps its value.
C15_LoadiAtTheLimit ==
    [][(Dispatching /\ command.op = "LOADI" /\ command.d \in ABCD) =>
          IF -MaxVal <= command.n /\ command.n <= MaxVal
          THEN /\ short_term'[command.d] = command.n
               /\ ~error'
               /\ pc' = "execute"
          ELSE /\ error'
               /\ FaultPrinted(output')
               /\ short_term'[command.d] = short_term[command.d]]_vars

\* LOADI A -MaxVal has been accepted
C15_Witness ==
    /\ Len(commands) >= 1
    /\ commands[1] = Line("LOADI", "A", "-", -MaxVal)
    /\ dispatched = 1
    /\ ~error
    /\ short_term["A"] = -MaxVal

\* no line of the program jumps or assigns P
StraightLine ==
    \A i \in 1 .. Len(commands) :
        commands[i].op \notin JumpOps /\ commands[i].d # "P"

\* C16: a dispatched PRINT r appends exactly one entry, the value of r; no
\* other step appends a value; and PRINT r right after LOADI r v (r among
\* A-D, v within the limit) prints v.
C16_PrintAppendsValue ==
    [][/\ (Dispatching /\ command.op = "PRINT") =>
             output' = Append(output,
                              [text |-> "int", value |-> short_term[command.d]])
       /\ (output' # output /\ ~(Dispatching /\ command.op = "PRINT")) =>
             /\ Len(output') = Len(output) + 1
             /\ SubSeq(output', 1, Len(output)) = output
             /\ Diagnostic(output'[Len(output')])
       /\ (/\ Dispatching
           /\ command.op = "PRINT"
           /\ P >= 1
           /\ StraightLine
           /\ commands[P].op = "LOADI"
           /\ commands[P].d = command.d
           /\ command.d \in ABCD
           /\ -MaxVal <= commands[P].n
           /\ commands[P].n <= MaxVal) =>
             output'[Len(output')].value = commands[P].n]_vars

\* LOADI A MaxVal, then PRINT A, has printed MaxVal
C16_Witness ==
    /\ Len(commands) = 2
    /\ commands[1] = Line("LOADI", "A", "-", MaxVal)
    /\ commands[2] = Line("PRINT", "A", "-", 0)
    /\ dispatched = 2
    /\ output = <<[text |-> "int", value |-> MaxVal]>>

\* C17: a program of zero instructions halts at once in halted-normal:
\* nothing is dispatched, nothing is printed, no error is set, and all six
\* registers and all memory cells are still 0.
C17_EmptyProgramHaltsNormally ==
    (pc # "load" /\ commands = <<>>) =>
        /\ pc \in {"execute", "exited"}
        /\ HaltedNormal
        /\ dispatched = 0
        /\ output = <<>>
        /\ \A r \in Regs : short_term[r] = 0
        /\ \A i \in DOMAIN memory : memory[i] = 0
        /\ pc = "execute" => ENABLED LoopExit

\* execute() has returned on the empty program
C17_Witness ==
    /\ commands = <<>>
    /\ pc = "exited"
    /\ ~error
    /\ output = <<>>

\* the whole program text, read or still to be read
Program == commands \o stdin

ProgramWritesX ==
    \E i \in 1 .. Len(Program) : NamesXAsDestination(Program[i])

\* execute() has returned, or the process has ended with a traceback
Stopped == pc \in {"exited", "raised"}

C19_UnknownOpcodeSkipped ==
    [][(Dispatching /\ command.op \notin Opcodes) =>
          /\ memory' = memory
          /\ \A r \in ABCD : short_term'[r] = short_term[r]
          /\ output' = output
          /\ ~error'
          /\ P' = P + 1
          /\ X' = X + 1
          /\ pc' = "execute"]_vars

\* a program of one unknown line has run to its end
C19_Witness ==
    /\ commands = <<Line("NOP", "-", "-", 0)>>
    /\ pc = "exited"
    /\ P = 1
    /\ X = 1
    /\ ~error
    /\ output = <<>>

\* the opcodes that assign their first operand
RegisterWriters ==
    {"LOADA", "LOAD", "LOADI", "MOVE", "ADDI", "ADD", "SUB", "MUL", "DIV"}

\* the address a store names: its operand for STOREA, register A for STORE
StoreAddress == IF command.op = "STOREA" THEN command.n ELSE short_term["A"]

\* C20: memory changes only in a STOREA or STORE that does not fault, and
\* then in exactly one cell, the addressed one, which receives the register's
\* value; every other step leaves every cell unchanged; an instruction that
\* is not a jump changes no register other than its destination, P and X.
C20_FrameOfInstructions ==
    [][/\ memory' # memory =>
             /\ Dispatching
             /\ command.op \in {"STOREA", "STORE"}
             /\ ~error'
             /\ pc' = "execute"
             /\ \E i \in DOMAIN memory :
                   /\ memory' = [memory EXCEPT ![i] = short_term[command.d]]
                   /\ i = Index(MemSize, StoreAddress)
                   /\ StoreAddress \in DOMAIN memory => i = StoreAddress
       /\ (Dispatching /\ command.op \notin JumpOps) =>
             \A r \in ABCD :
                 short_term'[r] # short_term[r] =>
                     /\ command.op \in RegisterWriters
                     /\ r = command.d]_vars

\* a store has changed a cell and the program has run on to its end
C20_Witness ==
    /\ \E i \in DOMAIN memory : memory[i] # 0
    /\ \E i \in 1 .. Len(commands) : commands[i].op \in {"STOREA", "STORE"}
    /\ pc = "exited"
    /\ ~error

====
